---- MODULE Spec2Model ----
(***************************************************************************)
(* Model of remits: the in-memory Manifest (src/src/db/manifest.rs) and    *)
(* the per-connection command pipeline handle_socket (src/src/main.rs).    *)
(*                                                                         *)
(* SpecM drives the Manifest's four public operations directly.            *)
(* Spec   drives connection handlers that share one Mutex<DB>.             *)
(***************************************************************************)
EXTENDS Integers, Sequences, FiniteSets, TLC

\* ------------------------------------------------------------------ bounds
MaxClock == 1
NumConns == 2
MaxTurn == 2

\* ------------------------------------------------------------ input domains
LogNames == {"orders", "billing"}
ItrNames == {"sum", "avg"}
Kinds == {"Map", "Filter"}
Funcs == {"f1", "f2"}

Conns == 1..NumConns

VARIABLES
    logs,       \* Manifest.logs : name -> LogRegistrant
    itrs,       \* Manifest.itrs : name -> Itr
    now,        \* SystemTime::now() in seconds
    panicked,   \* an expect()/unwrap() has fired
    last,       \* the last Manifest operation called, with its result
    pre,        \* the Manifest as it was when that operation was called
    pc,         \* handle_socket: where each connection task stands
    frame,      \* handle_socket: the frame read in this loop iteration
    cmd,        \* handle_socket: the parsed command
    out,        \* handle_socket: the result of exec
    resp,       \* handle_socket: the formatted response bytes
    todo,       \* del_log: the rest of to_be_deleted
    holders,    \* the tasks holding a MutexGuard of the DB
    poisoned,   \* the Mutex is poisoned
    lastio,     \* outcome of each task's last socket operation
    serial,     \* the Manifest after the commands run one at a time
    turn        \* per task: exec calls and send attempts since its last frame

hvars == <<last, pre>>
svars == <<pc, frame, cmd, out, resp, todo, holders, poisoned, lastio, serial, turn>>
vars == <<logs, itrs, now, panicked, last, pre,
          pc, frame, cmd, out, resp, todo, holders, poisoned, lastio, serial, turn>>

\* ------------------------------------------------------- HashMap primitives
Empty == [x \in {} |-> x]

Remove(f, k) == [x \in DOMAIN f \ {k} |-> f[x]]

Insert(f, k, v) == [x \in DOMAIN f \cup {k} |-> IF x = k THEN v ELSE f[x]]

\* ------------------------------------------------------------------ records
LogRegistrant(name, t) == [name |-> name, created_at |-> t]

\* Variant: the name field is filled from the log argument.
Itr_lognamed(log, name, kind, func) == [log |-> log, name |-> log, kind |-> kind, func |-> func]

Itr(log, name, kind, func) == [log |-> log, name |-> name, kind |-> kind, func |-> func]

\* ------------------------------------------------------- Manifest operations
\* Variant: logs.insert(name, ...) in place of entry().or_insert_with().
add_log_overwrite(ls, name, t) == Insert(ls, name, LogRegistrant(name, t))

\* logs.entry(name).or_insert_with(|| LogRegistrant { name, created_at: now })
add_log(ls, name, t) ==
    IF name \in DOMAIN ls THEN ls ELSE Insert(ls, name, LogRegistrant(name, t))

\* Variant: an occupied entry is replaced by the candidate.
add_itr_overwrite(is, log, name, kind, func) ==
    [itrs |-> Insert(is, name, Itr(log, name, kind, func)), res |-> "Ok"]

\* Variant: an occupied entry is always a conflict, equal or not.
add_itr_strict(is, log, name, kind, func) ==
    IF name \in DOMAIN is
    THEN [itrs |-> is, res |-> "ItrExistsWithSameName"]
    ELSE [itrs |-> Insert(is, name, Itr(log, name, kind, func)), res |-> "Ok"]

add_itr(is, log, name, kind, func) ==
    LET itr == Itr(log, name, kind, func) IN
    IF name \in DOMAIN is
    THEN IF is[name] # itr
         THEN [itrs |-> is, res |-> "ItrExistsWithSameName"]
         ELSE [itrs |-> is, res |-> "Ok"]
    ELSE [itrs |-> Insert(is, name, itr), res |-> "Ok"]

\* Variant: the stored log field is not compared with the caller's log.
del_itr_anylog(is, log, name) ==
    IF name \in DOMAIN is
    THEN [itrs |-> Remove(is, name), res |-> "Ok"]
    ELSE [itrs |-> is, res |-> "ItrDoesNotExist"]

\* Variant: the occupied, matching entry is not removed (e.remove() missing).
del_itr_noremove(is, log, name) ==
    IF name \in DOMAIN is /\ is[name].log = log
    THEN [itrs |-> is, res |-> "Ok"]
    ELSE [itrs |-> is, res |-> "ItrDoesNotExist"]

del_itr(is, log, name) ==
    IF name \in DOMAIN is
    THEN IF is[name].log # log
         THEN [itrs |-> is, res |-> "ItrDoesNotExist"]
         ELSE [itrs |-> Remove(is, name), res |-> "Ok"]
    ELSE [itrs |-> is, res |-> "ItrDoesNotExist"]

\* All the orders in which a HashMap may iterate over the keys in S.
Orders(S) ==
    {s \in [1..Cardinality(S) -> S] : \A i, j \in 1..Cardinality(S) : s[i] = s[j] => i = j}

\* Variant: the Vec collects x.log in place of x.name.
to_be_deleted_bylog(is, name) ==
    {[i \in DOMAIN s |-> is[s[i]].log] : s \in Orders({k \in DOMAIN is : is[k].log = name})}

\* itrs.iter().filter(|(_, itr)| itr.log == name).map(|(_, x)| x.name.clone()).collect()
\* The Vec holds the name FIELD of each selected entry, in iteration order.
to_be_deleted(is, name) ==
    {[i \in DOMAIN s |-> is[s[i]].name] : s \in Orders({k \in DOMAIN is : is[k].log = name})}

\* for itr in to_be_deleted.iter() { self.del_itr(name, itr).expect(...) }
RECURSIVE cascade(_, _, _)
cascade(is, name, td) ==
    IF td = <<>>
    THEN [itrs |-> is, panicked |-> FALSE]
    ELSE LET r == del_itr(is, name, Head(td)) IN
         IF r.res # "Ok"
         THEN [itrs |-> r.itrs, panicked |-> TRUE]
         ELSE cascade(r.itrs, name, Tail(td))

\* Variant: the log entry is removed and the cascade is skipped.
del_log_nocascade(ls, is, name, td) ==
    [logs |-> Remove(ls, name), itrs |-> is, panicked |-> FALSE]

\* Variant: the cascade runs only when logs.remove() found an entry.
del_log_ifpresent(ls, is, name, td) ==
    IF name \in DOMAIN ls
    THEN LET c == cascade(is, name, td) IN
         [logs |-> Remove(ls, name), itrs |-> c.itrs, panicked |-> c.panicked]
    ELSE [logs |-> ls, itrs |-> is, panicked |-> FALSE]

del_log(ls, is, name, td) ==
    LET c == cascade(is, name, td) IN
    [logs |-> Remove(ls, name), itrs |-> c.itrs, panicked |-> c.panicked]

\* ------------------------------------------------ commands, frames, bytes
NoFrame == [op |-> "none"]

LogAdd(name) == [op |-> "add_log", name |-> name]

LogDel(name) == [op |-> "del_log", name |-> name]

ItrAdd(log, name, kind, func) ==
    [op |-> "add_itr", log |-> log, name |-> name, kind |-> kind, func |-> func]

ItrDel(log, name) == [op |-> "del_itr", log |-> log, name |-> name]

Garbage == [op |-> "garbage"]

\* The frames the clients send.
Frames ==
    { LogAdd("orders"), LogDel("orders"),
      ItrAdd("orders", "sum", "Map", "f1"), ItrAdd("orders", "avg", "Map", "f1"),
      ItrDel("orders", "sum"),
      Garbage }

\* The frames of the lock-progress specification: a cascading del_log, the
\* add_itr that feeds it, and a frame the parser rejects.
FairFrames == { LogDel("orders"), ItrAdd("orders", "sum", "Map", "f1"), Garbage }

ParseErrorText == <<"could not parse command">>

\* parser::parse(&*frame) -> Result<Command, _>
parse(f) ==
    IF f.op \in {"add_log", "del_log", "add_itr", "del_itr"}
    THEN [ok |-> TRUE, cmd |-> f, err |-> <<>>]
    ELSE [ok |-> FALSE, cmd |-> NoFrame, err |-> ParseErrorText]

NoOut == [ok |-> TRUE, body |-> <<>>]

OkOut == [ok |-> TRUE, body |-> <<"ok">>]

ErrOut(e) == [ok |-> FALSE, body |-> <<e>>]

\* DB::exec for the commands that finish in one Manifest call.
exec(ls, is, k, t) ==
    CASE k.op = "add_log" ->
            [logs |-> add_log(ls, k.name, t), itrs |-> is, out |-> OkOut]
      [] k.op = "add_itr" ->
            LET r == add_itr(is, k.log, k.name, k.kind, k.func) IN
            [logs |-> ls, itrs |-> r.itrs, out |-> IF r.res = "Ok" THEN OkOut ELSE ErrOut(r.res)]
      [] k.op = "del_itr" ->
            LET r == del_itr(is, k.log, k.name) IN
            [logs |-> ls, itrs |-> r.itrs, out |-> IF r.res = "Ok" THEN OkOut ELSE ErrOut(r.res)]

\* format_error_response!: "!" followed by the error's bytes.
format_error_response(err) == <<"!">> \o err

\* Variant: the Err arm is formatted like the Ok arm.
format_response_plus(o) == <<"+">> \o o.body

\* format_response!: "+" followed by the payload, or the error response.
format_response(o) ==
    IF o.ok THEN <<"+">> \o o.body ELSE format_error_response(o.body)

IO(ev, logged) == [ev |-> ev, logged |-> logged]

Turn(read, execs, sends) == [read |-> read, execs |-> execs, sends |-> sends]

Bump(n) == IF n < MaxTurn THEN n + 1 ELSE n

\* ----------------------------------------------------------- SpecM: actions
NoCall == [op |-> "none", log |-> "", name |-> "", kind |-> "", func |-> "", res |-> "none"]

Call(op, log, name, kind, func, res) ==
    [op |-> op, log |-> log, name |-> name, kind |-> kind, func |-> func, res |-> res]

Snapshot == [logs |-> logs, itrs |-> itrs, now |-> now]

InitM ==
    /\ logs = Empty
    /\ itrs = Empty
    /\ now = 0
    /\ panicked = FALSE
    /\ last = NoCall
    /\ pre = [logs |-> Empty, itrs |-> Empty, now |-> 0]
    /\ pc = [c \in Conns |-> "Open"]
    /\ frame = [c \in Conns |-> NoFrame]
    /\ cmd = [c \in Conns |-> NoFrame]
    /\ out = [c \in Conns |-> NoOut]
    /\ resp = [c \in Conns |-> <<>>]
    /\ todo = [c \in Conns |-> <<>>]
    /\ holders = {}
    /\ poisoned = FALSE
    /\ lastio = [c \in Conns |-> IO("none", FALSE)]
    /\ serial = [logs |-> Empty, itrs |-> Empty]
    /\ turn = [c \in Conns |-> Turn(FALSE, 0, 0)]

Tick ==
    /\ now < MaxClock
    /\ now' = now + 1
    /\ UNCHANGED <<logs, itrs, panicked, last, pre>>
    /\ UNCHANGED svars

AddLog(name) ==
    /\ ~panicked
    /\ logs' = add_log(logs, name, now)
    /\ last' = Call("add_log", "", name, "", "", "Ok")
    /\ pre' = Snapshot
    /\ UNCHANGED <<itrs, now, panicked>>
    /\ UNCHANGED svars

DelLog(name) ==
    /\ ~panicked
    /\ \E td \in to_be_deleted(itrs, name) :
          LET r == del_log(logs, itrs, name, td) IN
          /\ logs' = r.logs
          /\ itrs' = r.itrs
          /\ panicked' = r.panicked
          /\ last' = Call("del_log", "", name, "", "", IF r.panicked THEN "panic" ELSE "Ok")
    /\ pre' = Snapshot
    /\ UNCHANGED now
    /\ UNCHANGED svars

\* Variant: add_itr refuses a log that is not registered.
AddItr_checked(log, name, kind, func) ==
    /\ ~panicked
    /\ LET r == IF log \in DOMAIN logs
                THEN add_itr(itrs, log, name, kind, func)
                ELSE [itrs |-> itrs, res |-> "LogDoesNotExist"] IN
          /\ itrs' = r.itrs
          /\ last' = Call("add_itr", log, name, kind, func, r.res)
    /\ pre' = Snapshot
    /\ UNCHANGED <<logs, now, panicked>>
    /\ UNCHANGED svars

\* Variant: add_itr registers the referenced log when it is missing.
AddItr_autolog(log, name, kind, func) ==
    /\ ~panicked
    /\ LET r == add_itr(itrs, log, name, kind, func) IN
          /\ itrs' = r.itrs
          /\ last' = Call("add_itr", log, name, kind, func, r.res)
    /\ logs' = add_log(logs, log, now)
    /\ pre' = Snapshot
    /\ UNCHANGED <<now, panicked>>
    /\ UNCHANGED svars

AddItr(log, name, kind, func) ==
    /\ ~panicked
    /\ LET r == add_itr(itrs, log, name, kind, func) IN
          /\ itrs' = r.itrs
          /\ last' = Call("add_itr", log, name, kind, func, r.res)
    /\ pre' = Snapshot
    /\ UNCHANGED <<logs, now, panicked>>
    /\ UNCHANGED svars

DelItr(log, name) ==
    /\ ~panicked
    /\ LET r == del_itr(itrs, log, name) IN
          /\ itrs' = r.itrs
          /\ last' = Call("del_itr", log, name, "", "", r.res)
    /\ pre' = Snapshot
    /\ UNCHANGED <<logs, now, panicked>>
    /\ UNCHANGED svars

NextM ==
    \/ Tick
    \/ \E name \in LogNames : AddLog(name)
    \/ \E name \in LogNames : DelLog(name)
    \/ \E log \in LogNames, name \in ItrNames, kind \in Kinds, func \in Funcs :
          AddItr(log, name, kind, func)
    \/ \E log \in LogNames, name \in ItrNames : DelItr(log, name)

SpecM == InitM /\ [][NextM]_vars

\* ------------------------------------------------- Spec: connection handlers
Init == InitM

\* Variant: lock() returns a guard although another task holds one.
LockFree_always(h) == TRUE

\* Mutex::lock blocks while another guard is alive.
LockFree(h) == h = {}

\* Variant: the guard outlives the statement and is still held at the send.
Release_keep(h, c) == h

\* The temporary MutexGuard is dropped at the end of the `let out` statement.
Release(h, c) == h \ {c}

\* Variant: a parse error is ignored and the frame goes on to the lock.
AfterParse_fallthrough(r) == "WaitLock"

\* match parser::parse(..) { Ok(cmd) => cmd, Err(e) => { send; continue } }
AfterParse(r) == IF r.ok THEN "WaitLock" ELSE "SendErr"

\* Variant: a failed send ends the connection.
AfterSend_close(p, written) == IF written THEN "Open" ELSE "Closed"

\* Variant: a failed send is tried again.
AfterSend_retry(p, written) == IF written THEN "Open" ELSE p

\* After framer.send(..).await the loop goes round, whatever the outcome:
\* `continue` on the parse-error path, the end of the body on the other.
AfterSend(p, written) == "Open"

\* error!("could not respond") is under `if let Err(e)` at the send of the
\* exec response; the parse-error send is `let _ = framer.send(resp).await`.
LogsWriteError(p) == p = "Send"

\* The commands applied one at a time, each as one indivisible step.
ExecAtomic(m, k, t) ==
    IF k.op = "del_log"
    THEN LET td == CHOOSE s \in to_be_deleted(m.itrs, k.name) : TRUE
             r == del_log(m.logs, m.itrs, k.name, td)
         IN [logs |-> r.logs, itrs |-> r.itrs]
    ELSE LET r == exec(m.logs, m.itrs, k, t)
         IN [logs |-> r.logs, itrs |-> r.itrs]

\* framer.next().await yields Some(Ok(frame)); the frame is parsed.
ReadFrame(c, f) ==
    /\ pc[c] = "Open"
    /\ LET r == parse(f) IN
          /\ pc' = [pc EXCEPT ![c] = AfterParse(r)]
          /\ frame' = [frame EXCEPT ![c] = f]
          /\ cmd' = [cmd EXCEPT ![c] = IF r.ok THEN r.cmd ELSE f]
          /\ resp' = [resp EXCEPT ![c] = IF r.ok THEN <<>> ELSE format_error_response(r.err)]
    /\ lastio' = [lastio EXCEPT ![c] = IO("frame", FALSE)]
    /\ turn' = [turn EXCEPT ![c] = Turn(TRUE, 0, 0)]
    /\ UNCHANGED <<logs, itrs, now, panicked, last, pre, out, todo, holders, poisoned, serial>>

\* framer.next().await yields None (end of stream) or Some(Err(e)).
ReadEnd(c, ev) ==
    /\ pc[c] = "Open"
    /\ pc' = [pc EXCEPT ![c] = "Closed"]
    /\ lastio' = [lastio EXCEPT ![c] = IO(ev, ev = "read_error")]
    /\ UNCHANGED <<logs, itrs, now, panicked, last, pre,
                   frame, cmd, out, resp, todo, holders, poisoned, serial, turn>>

\* db.lock().unwrap()
Lock(c) ==
    /\ pc[c] = "WaitLock"
    /\ LockFree(holders)
    /\ IF poisoned
       THEN /\ pc' = [pc EXCEPT ![c] = "Panicked"]
            /\ panicked' = TRUE
            /\ UNCHANGED holders
       ELSE /\ pc' = [pc EXCEPT ![c] = "Exec"]
            /\ holders' = holders \cup {c}
            /\ UNCHANGED panicked
    /\ UNCHANGED <<logs, itrs, now, last, pre, frame, cmd, out, resp, todo,
                   poisoned, lastio, serial, turn>>

\* .exec(cmd): one Manifest call, or del_log up to the start of its loop.
\* exec takes cmd by value: it is gone when exec returns, and the frame is
\* not read again after the parse.
ExecBegin(c) ==
    /\ pc[c] = "Exec"
    /\ IF cmd[c].op = "del_log"
       THEN \E td \in to_be_deleted(itrs, cmd[c].name) :
               /\ logs' = Remove(logs, cmd[c].name)
               /\ itrs' = itrs
               /\ todo' = [todo EXCEPT ![c] = td]
               /\ pc' = [pc EXCEPT ![c] = IF td = <<>> THEN "Unlock" ELSE "Cascade"]
               /\ out' = [out EXCEPT ![c] = IF td = <<>> THEN OkOut ELSE NoOut]
               /\ cmd' = [cmd EXCEPT ![c] = IF td = <<>> THEN NoFrame ELSE @]
               /\ frame' = [frame EXCEPT ![c] = IF td = <<>> THEN NoFrame ELSE @]
       ELSE LET r == exec(logs, itrs, cmd[c], now) IN
               /\ logs' = r.logs
               /\ itrs' = r.itrs
               /\ out' = [out EXCEPT ![c] = r.out]
               /\ pc' = [pc EXCEPT ![c] = "Unlock"]
               /\ cmd' = [cmd EXCEPT ![c] = NoFrame]
               /\ frame' = [frame EXCEPT ![c] = NoFrame]
               /\ UNCHANGED todo
    /\ serial' = ExecAtomic(serial, cmd[c], now)
    /\ turn' = [turn EXCEPT ![c].execs = Bump(@)]
    /\ UNCHANGED <<now, panicked, last, pre, resp, holders, poisoned, lastio>>

\* One turn of del_log's loop: del_itr(name, itr).expect(..)
CascadeStep(c) ==
    /\ pc[c] = "Cascade"
    /\ LET r == del_itr(itrs, cmd[c].name, Head(todo[c])) IN
       IF r.res # "Ok"
       THEN \* the expect panics: the guard is dropped while unwinding
            /\ pc' = [pc EXCEPT ![c] = "Panicked"]
            /\ panicked' = TRUE
            /\ poisoned' = TRUE
            /\ holders' = holders \ {c}
            /\ UNCHANGED <<itrs, todo, out, cmd, frame>>
       ELSE /\ itrs' = r.itrs
            /\ todo' = [todo EXCEPT ![c] = Tail(todo[c])]
            /\ pc' = [pc EXCEPT ![c] = IF Tail(todo[c]) = <<>> THEN "Unlock" ELSE "Cascade"]
            /\ out' = [out EXCEPT ![c] = IF Tail(todo[c]) = <<>> THEN OkOut ELSE NoOut]
            /\ cmd' = [cmd EXCEPT ![c] = IF Tail(todo[c]) = <<>> THEN NoFrame ELSE @]
            /\ frame' = [frame EXCEPT ![c] = IF Tail(todo[c]) = <<>> THEN NoFrame ELSE @]
            /\ UNCHANGED <<panicked, poisoned, holders>>
    /\ UNCHANGED <<logs, now, last, pre, resp, lastio, serial, turn>>

\* End of `let out = db.lock().unwrap().exec(cmd);` and format_response!(out).
Unlock(c) ==
    /\ pc[c] = "Unlock"
    /\ holders' = Release(holders, c)
    /\ resp' = [resp EXCEPT ![c] = format_response(out[c])]
    /\ out' = [out EXCEPT ![c] = NoOut]
    /\ pc' = [pc EXCEPT ![c] = "Send"]
    /\ UNCHANGED <<logs, itrs, now, panicked, last, pre, frame, cmd, todo,
                   poisoned, lastio, serial, turn>>

\* framer.send(resp).await, written or failed; the loop goes round either way.
Send(c, written) ==
    /\ pc[c] \in {"Send", "SendErr"}
    /\ lastio' = [lastio EXCEPT ![c] =
                     IF written THEN IO("sent", FALSE)
                     ELSE IO("write_error", LogsWriteError(pc[c]))]
    /\ pc' = [pc EXCEPT ![c] = AfterSend(pc[c], written)]
    /\ turn' = [turn EXCEPT ![c].sends = Bump(@)]
    /\ frame' = [frame EXCEPT ![c] = NoFrame]
    /\ cmd' = [cmd EXCEPT ![c] = NoFrame]
    /\ resp' = [resp EXCEPT ![c] = <<>>]
    /\ UNCHANGED <<logs, itrs, now, panicked, last, pre, out, todo, holders,
                   poisoned, serial>>

Next ==
    \/ Tick
    \/ \E c \in Conns, f \in Frames : ReadFrame(c, f)
    \/ \E c \in Conns, ev \in {"eof", "read_error"} : ReadEnd(c, ev)
    \/ \E c \in Conns : Lock(c)
    \/ \E c \in Conns : ExecBegin(c)
    \/ \E c \in Conns : CascadeStep(c)
    \/ \E c \in Conns : Unlock(c)
    \/ \E c \in Conns, written \in BOOLEAN : Send(c, written)

Spec == Init /\ [][Next]_vars

\* The task holding the guard is running synchronous code: it goes on to the
\* end of the statement.  A task blocked in lock() is woken when the Mutex is
\* free; std::sync::Mutex does not say which waiter gets it.  Socket reads
\* and writes may stall for ever.
HolderStep == \E c \in Conns : ExecBegin(c) \/ CascadeStep(c) \/ Unlock(c)

NextFair ==
    \/ \E c \in Conns, f \in FairFrames : ReadFrame(c, f)
    \/ \E c \in Conns, ev \in {"eof", "read_error"} : ReadEnd(c, ev)
    \/ \E c \in Conns : Lock(c)
    \/ \E c \in Conns : ExecBegin(c)
    \/ \E c \in Conns : CascadeStep(c)
    \/ \E c \in Conns : Unlock(c)
    \/ \E c \in Conns, written \in BOOLEAN : Send(c, written)

SpecFair ==
    /\ Init
    /\ [][NextFair]_vars
    /\ WF_vars(HolderStep)
    /\ \A c \in Conns : WF_vars(Lock(c))

\* ------------------------------------------------- Manifest claims (SpecM)
Restrict(f, S) == [x \in DOMAIN f \cap S |-> f[x]]

\* C1: after del_log(L), L is absent from logs, no iterator whose log field
\* is L remains in itrs, and every iterator whose log field differs from L
\* (and every log other than L) is present and unchanged.
C1_DelLogCascade ==
    last.op = "del_log" =>
        /\ last.name \notin DOMAIN logs
        /\ \A k \in DOMAIN itrs : itrs[k].log # last.name
        /\ itrs = Restrict(pre.itrs, {k \in DOMAIN pre.itrs : pre.itrs[k].log # last.name})
        /\ logs = Restrict(pre.logs, DOMAIN pre.logs \ {last.name})

C1_Witness ==
    /\ last.op = "del_log"
    /\ last.name \in DOMAIN pre.logs
    /\ \E k \in DOMAIN pre.itrs : pre.itrs[k].log = last.name
    /\ \E j \in DOMAIN pre.itrs : pre.itrs[j].log # last.name
    /\ DOMAIN pre.logs # {last.name}

Candidate == Itr(last.log, last.name, last.kind, last.func)

\* C3: add_itr on a name already stored with an entry differing in any field
\* fails with ItrExistsWithSameName and leaves the whole manifest unchanged;
\* no two stored iterators carry the same name.
C3_AddItrConflict ==
    /\ (last.op = "add_itr" /\ last.name \in DOMAIN pre.itrs /\ pre.itrs[last.name] # Candidate) =>
          /\ last.res = "ItrExistsWithSameName"
          /\ itrs = pre.itrs
          /\ logs = pre.logs
    /\ \A k1, k2 \in DOMAIN itrs : itrs[k1].name = itrs[k2].name => k1 = k2

C3_Witness ==
    /\ last.op = "add_itr"
    /\ last.name \in DOMAIN pre.itrs
    /\ pre.itrs[last.name].log = last.log
    /\ pre.itrs[last.name].kind = last.kind
    /\ pre.itrs[last.name].func # last.func
    /\ last.res = "ItrExistsWithSameName"

\* C4: del_itr(L, N) fails with ItrDoesNotExist exactly when N is absent or
\* stored under a different log; on failure the manifest is unchanged.
C4_DelItrNotFound ==
    last.op = "del_itr" =>
        /\ last.res \in {"Ok", "ItrDoesNotExist"}
        /\ (last.res = "ItrDoesNotExist") <=>
              (\/ last.name \notin DOMAIN pre.itrs
               \/ pre.itrs[last.name].log # last.log)
        /\ (last.res = "ItrDoesNotExist") => (itrs = pre.itrs /\ logs = pre.logs)

C4_Witness ==
    /\ last.op = "del_itr"
    /\ last.name \in DOMAIN pre.itrs
    /\ pre.itrs[last.name].log # last.log
    /\ last.res = "ItrDoesNotExist"
    /\ last.name \in DOMAIN itrs
    /\ itrs[last.name].log # last.log

\* C5: add_log(n) of a registered n changes nothing: the one entry for n
\* keeps the created_at of the first call even when the clock has advanced.
C5_AddLogIdempotent ==
    (last.op = "add_log" /\ last.name \in DOMAIN pre.logs) =>
        /\ logs = pre.logs
        /\ itrs = pre.itrs
        /\ logs[last.name].created_at = pre.logs[last.name].created_at

C5_Witness ==
    /\ last.op = "add_log"
    /\ last.name \in DOMAIN pre.logs
    /\ pre.now > pre.logs[last.name].created_at

\* C6: add_itr with arguments identical to the stored entry succeeds and
\* changes nothing; the one entry for N stays.
C6_AddItrIdempotent ==
    (last.op = "add_itr" /\ last.name \in DOMAIN pre.itrs /\ pre.itrs[last.name] = Candidate) =>
        /\ last.res = "Ok"
        /\ itrs = pre.itrs
        /\ logs = pre.logs
        /\ itrs[last.name] = Candidate

C6_Witness ==
    /\ last.op = "add_itr"
    /\ last.name \in DOMAIN pre.itrs
    /\ pre.itrs[last.name] = Candidate
    /\ last.res = "Ok"
    /\ Cardinality(DOMAIN itrs) = 2

\* C7: del_itr(L, N) with N stored under L succeeds, removes exactly N's
\* entry and leaves every other iterator and every log unchanged.
C7_DelItrRemoves ==
    (last.op = "del_itr" /\ last.name \in DOMAIN pre.itrs /\ pre.itrs[last.name].log = last.log) =>
        /\ last.res = "Ok"
        /\ itrs = Remove(pre.itrs, last.name)
        /\ logs = pre.logs

C7_Witness ==
    /\ last.op = "del_itr"
    /\ last.name \in DOMAIN pre.itrs
    /\ pre.itrs[last.name].log = last.log
    /\ last.res = "Ok"
    /\ itrs # Empty
    /\ logs # Empty

\* C8: del_log never fails outwardly: no del_itr of the cascade returns Err
\* (so the expect never fires), and the cascade is never left half-applied.
C8_DelLogNeverPanics ==
    /\ ~panicked
    /\ last.op = "del_log" =>
          /\ last.res = "Ok"
          /\ \A k \in DOMAIN itrs : itrs[k].log # last.name

C8_Witness ==
    /\ last.op = "del_log"
    /\ Cardinality({k \in DOMAIN pre.itrs : pre.itrs[k].log = last.name}) = 2
    /\ last.res = "Ok"
    /\ itrs = Empty

\* ----------------------------------------------------- pipeline claims (Spec)
\* C2: commands of concurrent connections are serializable: whenever no
\* command is in progress the manifest equals the one obtained by applying
\* the commands one at a time, and a command about to execute never sees
\* another one's half-applied mutation (no del_log cascade is under way).
C2_Serializable ==
    /\ holders = {} => (logs = serial.logs /\ itrs = serial.itrs)
    /\ \A c \in Conns : pc[c] = "Exec" =>
          /\ logs = serial.logs
          /\ itrs = serial.itrs
          /\ \A d \in Conns : pc[d] # "Cascade"

C2_Witness ==
    \E c, d \in Conns :
        /\ c # d
        /\ pc[c] = "Cascade"
        /\ cmd[c].name \notin DOMAIN logs
        /\ itrs # serial.itrs
        /\ pc[d] = "WaitLock"

\* C9: the database lock is a mutual-exclusion lock around one command: at
\* most one handler holds it, a handler executes only while holding it, and
\* no handler holds it while reading a frame or sending a response.
C9_LockDiscipline ==
    /\ Cardinality(holders) <= 1
    /\ \A c \in Conns :
          /\ pc[c] \in {"Exec", "Cascade", "Unlock"} => c \in holders
          /\ pc[c] \in {"Open", "WaitLock", "SendErr", "Send", "Closed"} => c \notin holders

C9_Witness ==
    \E c, d \in Conns :
        /\ c # d
        /\ pc[c] = "Send"
        /\ d \in holders
        /\ pc[d] = "Exec"

\* C10: a frame the parser rejects yields "!" followed by the parser's
\* message and goes straight to the send: the lock is not taken, exec is not
\* called, the manifest is unchanged, and the handler returns to Open.
C10_ParseErrorPath ==
    [][\A c \in Conns :
          /\ (pc[c] = "Open" /\ pc'[c] \notin {"Open", "Closed"} /\ ~parse(frame'[c]).ok) =>
                /\ pc'[c] = "SendErr"
                /\ resp'[c] = <<"!">> \o parse(frame'[c]).err
                /\ UNCHANGED <<logs, itrs, holders, serial>>
          /\ (pc[c] = "SendErr" /\ pc'[c] # "SendErr") =>
                /\ pc'[c] = "Open"
                /\ c \notin holders
                /\ UNCHANGED <<logs, itrs, holders, serial>>
      ]_vars

C10_Witness ==
    \E c \in Conns :
        /\ pc[c] = "SendErr"
        /\ frame[c] = Garbage
        /\ Head(resp[c]) = "!"
        /\ logs # Empty
        /\ itrs # Empty

\* ------------------------------------------- Manifest claims, second part
\* C14: add_itr makes no existence check on the referenced log: with N
\* vacant it succeeds and stores the entry whether or not L is in logs, and
\* it never adds L to logs.
C14_AddItrNoLogCheck ==
    (last.op = "add_itr" /\ last.name \notin DOMAIN pre.itrs) =>
        /\ last.res = "Ok"
        /\ itrs = Insert(pre.itrs, last.name, Candidate)
        /\ logs = pre.logs

C14_Witness ==
    /\ last.op = "add_itr"
    /\ last.name \notin DOMAIN pre.itrs
    /\ last.log \notin DOMAIN pre.logs
    /\ pre.logs # Empty
    /\ last.res = "Ok"
    /\ last.name \in DOMAIN itrs
    /\ last.log \notin DOMAIN logs

\* C15: del_log(L) of an unregistered L is not an error, leaves logs
\* unchanged and still removes every iterator whose log field is L.
C15_DelLogAbsentCascades ==
    (last.op = "del_log" /\ last.name \notin DOMAIN pre.logs) =>
        /\ last.res = "Ok"
        /\ logs = pre.logs
        /\ \A k \in DOMAIN pre.itrs : pre.itrs[k].log = last.name => k \notin DOMAIN itrs

C15_Witness ==
    /\ last.op = "del_log"
    /\ last.name \notin DOMAIN pre.logs
    /\ pre.logs # Empty
    /\ \E k \in DOMAIN pre.itrs : pre.itrs[k].log = last.name
    /\ last.res = "Ok"

\* C16: iterator entries are never mutated in place: a name stored before
\* and after an operation keeps its log, kind and func, and an entry goes
\* away only by a successful del_itr(its log, N) or by del_log(its log).
C16_ItrNeverMutated ==
    /\ \A k \in DOMAIN pre.itrs \cap DOMAIN itrs : itrs[k] = pre.itrs[k]
    /\ \A k \in DOMAIN pre.itrs \ DOMAIN itrs :
          \/ /\ last.op = "del_itr"
             /\ last.name = k
             /\ last.log = pre.itrs[k].log
             /\ last.res = "Ok"
          \/ /\ last.op = "del_log"
             /\ last.name = pre.itrs[k].log

C16_Witness ==
    /\ last.op = "add_itr"
    /\ last.res = "ItrExistsWithSameName"
    /\ pre.itrs[last.name].log # last.log
    /\ itrs[last.name] = pre.itrs[last.name]
    /\ Cardinality(DOMAIN itrs) = 2

\* C17: log entries have one creator and one destroyer: add_itr and del_itr
\* leave logs unchanged, add_log leaves itrs unchanged, del_log(n) leaves the
\* other logs unchanged, a registered log keeps its created_at, and a log
\* goes away only by del_log of its name.
C17_LogFrame ==
    /\ last.op \in {"add_itr", "del_itr"} => logs = pre.logs
    /\ last.op = "add_log" => itrs = pre.itrs
    /\ \A n \in DOMAIN pre.logs \cap DOMAIN logs : logs[n] = pre.logs[n]
    /\ \A n \in DOMAIN pre.logs \ DOMAIN logs : last.op = "del_log" /\ last.name = n
    /\ \A n \in DOMAIN logs \ DOMAIN pre.logs : last.op = "add_log" /\ last.name = n

C17_Witness ==
    /\ last.op = "del_log"
    /\ Cardinality(DOMAIN pre.logs) = 2
    /\ Cardinality(DOMAIN logs) = 1
    /\ \E n \in DOMAIN logs : logs[n].created_at < now

\* C20: every entry of itrs stored under key k has name field k, and every
\* entry of logs stored under key k has name field k.
C20_KeyNameAgreement ==
    /\ \A k \in DOMAIN itrs : itrs[k].name = k
    /\ \A k \in DOMAIN logs : logs[k].name = k

C20_Witness ==
    /\ Cardinality(DOMAIN itrs) = 2
    /\ Cardinality(DOMAIN logs) = 2
    /\ last.op = "add_itr"
    /\ last.res = "Ok"
    /\ itrs[last.name].name = last.name

\* ------------------------------------------- pipeline claims, second part
\* C11: a handler reaches Closed only from Open and only on end-of-stream or
\* a read error; after a send, failed or not, it is back at Open; no task
\* ends by a panic; Closed is terminal and no frame is processed after it.
C11_ClosedOnlyOnRead ==
    [][\A c \in Conns :
          /\ (pc'[c] = "Closed" /\ pc[c] # "Closed") =>
                /\ pc[c] = "Open"
                /\ lastio'[c].ev \in {"eof", "read_error"}
          /\ (pc[c] \in {"Send", "SendErr"} /\ pc'[c] # pc[c]) => pc'[c] = "Open"
          /\ pc'[c] # "Panicked"
          /\ pc[c] = "Closed" =>
                /\ pc'[c] = "Closed"
                /\ frame'[c] = frame[c]
                /\ turn'[c] = turn[c]
      ]_vars

C11_Witness ==
    \E c, d \in Conns :
        /\ c # d
        /\ pc[c] = "Open"
        /\ lastio[c].ev = "write_error"
        /\ turn[c].execs = 1
        /\ pc[d] = "Closed"
        /\ lastio[d].ev = "read_error"

\* C12: every write error met while sending a response is logged, be it the
\* parse-error response or the response to an executed command.
C12_WriteErrorsLogged ==
    \A c \in Conns : lastio[c].ev = "write_error" => lastio[c].logged

\* C13: an Ok result is sent as "+" followed by the payload, every failure,
\* from the parser or from exec, as "!" followed by the error text.
C13_ResponseEncoding ==
    [][\A c \in Conns :
          /\ (pc[c] = "Unlock" /\ pc'[c] = "Send") =>
                resp'[c] = (IF out[c].ok THEN <<"+">> ELSE <<"!">>) \o out[c].body
          /\ (pc[c] = "Open" /\ pc'[c] = "SendErr") =>
                resp'[c] = <<"!">> \o parse(frame'[c]).err
      ]_vars

C13_Witness ==
    \E c, d \in Conns :
        /\ pc[c] = "Send"
        /\ resp[c] = <<"!", "ItrDoesNotExist">>
        /\ pc[d] = "Send"
        /\ resp[d] = <<"+", "ok">>

\* C18: per connection requests and responses alternate: a frame read is
\* followed by exactly one send attempt before the next read, and its
\* command is executed at most once.
C18_OneResponsePerFrame ==
    \A c \in Conns :
        /\ turn[c].execs <= 1
        /\ turn[c].sends <= 1
        /\ (pc[c] \in {"Open", "Closed"} /\ turn[c].read) => turn[c].sends = 1
        /\ pc[c] \in {"WaitLock", "Exec", "Cascade", "Unlock", "Send", "SendErr"} =>
              (turn[c].read /\ turn[c].sends = 0)
        /\ pc[c] \in {"WaitLock", "Exec", "SendErr"} => turn[c].execs = 0
        /\ pc[c] \in {"Cascade", "Unlock", "Send"} => turn[c].execs = 1

C18_Witness ==
    \E c \in Conns :
        /\ pc[c] = "Open"
        /\ turn[c] = Turn(TRUE, 1, 1)
        /\ lastio[c].ev = "write_error"
        /\ itrs # Empty

\* C19 as stated: every handler that has parsed a command gets the lock,
\* executes, releases and reaches its send, whatever the others do.
C19_EveryWaiterServed ==
    \A c \in Conns : (pc[c] = "WaitLock") ~> (pc[c] = "Send")

\* C19 as amended: the lock is never held for ever (its holder reaches its
\* send with the lock released), and while a handler waits the lock does not
\* stay idle: some handler gets it.
C19_LockNeverHeldForever ==
    /\ \A c \in Conns : (c \in holders) ~> (pc[c] = "Send" /\ c \notin holders)
    /\ \A c \in Conns : (pc[c] = "WaitLock") ~> (holders # {})

C19_Witness ==
    \E c, d \in Conns :
        /\ c # d
        /\ pc[c] = "WaitLock"
        /\ pc[d] = "Cascade"
        /\ d \in holders
        /\ Len(todo[d]) = 1

====
